---- MODULE Spec2Model ----
(***************************************************************************)
(* Model of the paper-trading maker bot (src/bot.py): the price feed and   *)
(* the window scheduler market_loop, two asyncio tasks of one process,     *)
(* over the sqlite store (state.balance and the trades table).             *)
(*                                                                         *)
(* Units.  Time is counted in ticks of 1/TicksPerSecond second, so that    *)
(* time.time() can fall between two whole seconds.  Money is counted in    *)
(* 1/Scale dollar (round(x, 4) keeps four decimals).  Prices are whole     *)
(* dollars.                                                                *)
(***************************************************************************)
EXTENDS Integers, Sequences, FiniteSets, TLC

\* ---------------------------------------------------------------- config
WINDOW_SECONDS == 300
SIGNAL_OFFSET == 10
MIN_MOVE_USD == 5
\* 0.92, in 1/Scale
ENTRY_PRICE == 9200
\* 10.0 dollars, in 1/Scale
ORDER_SIZE_USD == 100000
\* 0.005 dollars, in 1/Scale
MAKER_REBATE == 50
\* 100.0 dollars, in 1/Scale
INITIAL_BALANCE == 1000000
\* round(x, 4): four decimals
Scale == 10000
\* asyncio.sleep(5) of the feed, in seconds
RETRY_SECONDS == 5
BINANCE_WS_ENDPOINTS == <<"stream.binance.com", "stream.binance.us">>

\* ---------------------------------------------------------------- bounds
\* clock resolution: ticks per second
TicksPerSecond == 2
\* the clock stops after this many windows
MaxWindows == 3

\* Python's None for a number (no price, epoch, balance or pnl is -1) and for
\* a string
None == -1
Unset == "None"
W == WINDOW_SECONDS * TicksPerSecond
S == SIGNAL_OFFSET * TicksPerSecond
MaxTime == MaxWindows * W

\* The instants the clock is observed at: on a boundary, just after it, on
\* the signal instant, just after it.
Instants == {t \in 0..MaxTime : t % W \in {0, 1, W - S, W - S + 1}}

\* the prices the feed delivers: moves of 0, 2, 5 and 7 dollars
Prices == {49998, 50000, 50005}

VARIABLES
    now,               \* time.time(), in ticks
    mpc,               \* market_loop's position ("down": no process)
    balance,           \* run's local balance
    latest_price,      \* run's local latest_price
    ws_epoch, window_end_epoch,
    btc_open, btc_at_signal, btc_close,
    direction, outcome, pnl,
    fpc, endpoint, feed_wake,   \* price_feed's position
    db_state,          \* the state table: rows (key, value)
    trades,            \* the trades table, in id order
    sampled,           \* history: the instants of the window's three samples
    config,            \* the constants an operator may override (lines 23-24)
    prices,            \* the prices the price source trades at
    ended,             \* how the last process ended, "no" while one runs
    applied            \* history: the window starts whose pnl set_balance
                       \* has committed

vars == <<now, mpc, balance, latest_price, ws_epoch, window_end_epoch,
          btc_open, btc_at_signal, btc_close, direction, outcome, pnl,
          fpc, endpoint, feed_wake, db_state, trades, sampled,
          config, prices, ended, applied>>

locals == <<ws_epoch, window_end_epoch, btc_open, btc_at_signal, btc_close,
            direction, outcome, pnl>>
feed == <<fpc, endpoint, feed_wake>>
db == <<db_state, trades>>
\* what no step of the program changes
static == <<config, prices>>

\* ---------------------------------------------------------------- helpers
Abs(x) == IF x < 0 THEN -x ELSE x

\* round(n/d) to the nearest integer, ties to even (Python's round), d > 0
RoundHalfEven(n, d) ==
    LET q == n \div d
        r == n % d
    IN  IF 2 * r < d THEN q
        ELSE IF 2 * r > d THEN q + 1
        ELSE IF q % 2 = 0 THEN q ELSE q + 1

\* str(bal) of a float with four decimals: sign, integer part, decimals
PyStr(bal) ==
    [neg |-> bal < 0, int |-> Abs(bal) \div Scale, frac |-> Abs(bal) % Scale]

\* float(text)
PyFloat(s) == (IF s.neg THEN -1 ELSE 1) * (s.int * Scale + s.frac)

\* mutant: the boundary at or before t (the "+ WINDOW_SECONDS" forgotten)
next_window_start_floor(t) == t - (t % W)

next_window_start(t) == t - (t % W) + W

\* strftime("%Y-%m-%d %H:%M:%S"): the whole second the instant falls in
fmt_ts(epoch) == epoch \div TicksPerSecond

\* ------------------------------------------------------------ the ledger
\* SELECT value FROM state WHERE key='balance'
BalanceRows(state) == {r \in state : r.key = "balance"}

\* mutant: INSERT OR REPLACE, the balance row is written at every start
init_db_reset(state) ==
    {r \in state : r.key # "balance"}
        \cup {[key |-> "balance", value |-> PyStr(INITIAL_BALANCE)]}

\* init_db: the balance row is inserted only when there is none
init_db(state) ==
    IF BalanceRows(state) = {}
    THEN state \cup {[key |-> "balance", value |-> PyStr(INITIAL_BALANCE)]}
    ELSE state

get_balance(state) == PyFloat((CHOOSE r \in BalanceRows(state) : TRUE).value)

\* mutant: the UPDATE is never committed
set_balance_nocommit(state, bal) == state

\* UPDATE state SET value=? WHERE key='balance'
set_balance(state, bal) ==
    {IF r.key = "balance" THEN [r EXCEPT !.value = PyStr(bal)] ELSE r :
        r \in state}

\* mutant: INSERT OR REPLACE on one id, the row overwrites the table's
record_trade_replace(table, kw) == <<kw>>

record_trade(table, kw) == Append(table, kw)

\* ------------------------------------------------------- decision, payoff
\* mutant: <= for <
IsSkipInclusive(move) == Abs(move) <= config.MIN_MOVE_USD

\* line 157: the SKIP test
IsSkip(move) == Abs(move) < config.MIN_MOVE_USD

\* line 179
BetDirection(move) == IF move > 0 THEN "UP" ELSE "DOWN"

\* mutant: no flat case, and a flat close counted as UP
OutcomeFlatAsUp(dir, open, close) ==
    LET actual == IF close >= open THEN "UP" ELSE "DOWN"
    IN  IF actual = dir THEN "WIN" ELSE "LOSS"

\* lines 189-197
Outcome(dir, open, close) ==
    LET actual == IF close > open THEN "UP" ELSE "DOWN"
    IN  IF close = open THEN "LOSS"
        ELSE IF actual = dir THEN "WIN"
        ELSE "LOSS"

\* mutant: the rebate left out of a win
WinPnlNoRebate ==
    RoundHalfEven(ORDER_SIZE_USD * (Scale - ENTRY_PRICE), ENTRY_PRICE)

\* mutant: the profit truncated to four decimals instead of rounded
WinPnlTruncated ==
    (ORDER_SIZE_USD * (Scale - ENTRY_PRICE) + MAKER_REBATE * ENTRY_PRICE)
        \div ENTRY_PRICE

\* lines 180, 200-201: round(shares * (1.0 - ENTRY_PRICE) + MAKER_REBATE, 4)
\* with shares = ORDER_SIZE_USD / ENTRY_PRICE
WinPnl ==
    RoundHalfEven(ORDER_SIZE_USD * (Scale - ENTRY_PRICE)
                    + MAKER_REBATE * ENTRY_PRICE, ENTRY_PRICE)

\* line 203: round(-ORDER_SIZE_USD + MAKER_REBATE, 4)
LossPnl == RoundHalfEven(-ORDER_SIZE_USD + MAKER_REBATE, 1)

Pnl(out) == IF out = "WIN" THEN WinPnl ELSE LossPnl

\* line 205: round(balance + pnl, 4)
NewBalance(bal, p) == RoundHalfEven(bal + p, 1)

\* mutant: the offset taken from the window's start
SignalTimeFromStart(we) == we - W - config.SIGNAL_OFFSET * TicksPerSecond

\* line 149
SignalTime(we) == we - config.SIGNAL_OFFSET * TicksPerSecond

NoSamples == [open |-> None, signal |-> None, close |-> None]

\* mutant: an await between the balance's commit and the record's
SuspendedWithRecord ==
    {"wait_price", "sleep_open", "sleep_signal", "sleep_skip", "sleep_close",
     "record"}

\* the positions at which market_loop is suspended in an await
Suspended ==
    {"wait_price", "sleep_open", "sleep_signal", "sleep_skip", "sleep_close"}

\* -------------------------------------------------------------------- Init
\* the configuration of lines 22-28 as written
DefaultConfig ==
    [SIGNAL_OFFSET |-> SIGNAL_OFFSET, MIN_MOVE_USD |-> MIN_MOVE_USD]

\* no process yet, no database file, under configuration cfg and a price
\* source trading at the prices of tape
InitWith(cfg, tape) ==
    /\ config = cfg
    /\ prices = tape
    /\ ended = "no"
    /\ applied = {}
    /\ now \in {t \in Instants : t < W}
    /\ mpc = "down"
    /\ balance = None
    /\ latest_price = None
    /\ ws_epoch = None /\ window_end_epoch = None
    /\ btc_open = None /\ btc_at_signal = None /\ btc_close = None
    /\ direction = Unset /\ outcome = Unset /\ pnl = None
    /\ fpc = "down" /\ endpoint = 1 /\ feed_wake = 0
    /\ db_state = {}
    /\ trades = <<>>
    /\ sampled = NoSamples

Init == InitWith(DefaultConfig, Prices)

\* the process is gone: its memory with it
ProcessGone ==
    /\ mpc' = "down"
    /\ balance' = None
    /\ latest_price' = None
    /\ ws_epoch' = None /\ window_end_epoch' = None
    /\ btc_open' = None /\ btc_at_signal' = None /\ btc_close' = None
    /\ direction' = Unset /\ outcome' = Unset /\ pnl' = None
    /\ fpc' = "down" /\ endpoint' = 1 /\ feed_wake' = 0
    /\ sampled' = NoSamples

\* ------------------------------------------------------------------- clock
Tick ==
    /\ \E t \in Instants : t > now /\ now' = t
    /\ UNCHANGED <<static, ended, applied>>
    /\ UNCHANGED <<mpc, balance, latest_price, locals, feed, db, sampled>>

\* --------------------------------------------------------------------- run
\* lines 107-112 and the start of the two tasks
Start ==
    /\ mpc = "down"
    /\ db_state' = init_db(db_state)
    /\ balance' = get_balance(db_state')
    /\ latest_price' = None
    /\ mpc' = "wait_price"
    /\ fpc' = "connect" /\ endpoint' = 1 /\ feed_wake' = 0
    /\ ended' = "no"
    /\ UNCHANGED <<static, applied>>
    /\ UNCHANGED <<now, locals, trades, sampled>>

\* the process is killed at any point (SIGKILL, power loss, an interrupt
\* raised inside synchronous code)
Crash ==
    /\ mpc # "down"
    /\ ProcessGone
    /\ ended' = "killed"
    /\ UNCHANGED <<static, applied>>
    /\ UNCHANGED <<now, db>>

\* lines 228-232: the tasks are cancelled (asyncio.run cancels the main task
\* on an interrupt); CancelledError is raised in market_loop at the await it
\* is suspended in
Cancel ==
    /\ mpc \in Suspended
    /\ ProcessGone
    /\ ended' = "cancelled"
    /\ UNCHANGED <<static, applied>>
    /\ UNCHANGED <<now, db>>

\* -------------------------------------------------------------- price_feed
FeedRuns == mpc \in Suspended

\* line 119: websockets.connect succeeds
FeedConnect ==
    /\ FeedRuns /\ fpc = "connect"
    /\ fpc' = "stream"
    /\ UNCHANGED <<static, ended, applied>>
    /\ UNCHANGED <<now, mpc, balance, latest_price, locals, endpoint,
                   feed_wake, db, sampled>>

\* lines 121-123: a trade message is parsed
FeedMessage ==
    /\ FeedRuns /\ fpc = "stream"
    /\ \E p \in prices : latest_price' = p
    /\ UNCHANGED <<static, ended, applied>>
    /\ UNCHANGED <<now, mpc, balance, locals, feed, db, sampled>>

\* mutant: the feed sleeps after any failure and starts again from the first
\* endpoint
FeedErrorNoFailover ==
    /\ FeedRuns /\ fpc \in {"connect", "stream"}
    /\ endpoint' = 1
    /\ fpc' = "backoff"
    /\ feed_wake' = now + RETRY_SECONDS * TicksPerSecond
    /\ UNCHANGED <<static, ended, applied>>
    /\ UNCHANGED <<now, mpc, balance, latest_price, locals, db, sampled>>

\* lines 124-128: connect, the stream or the parse raises; the next endpoint
\* is tried, and after the last one the feed sleeps
FeedError ==
    /\ FeedRuns /\ fpc \in {"connect", "stream"}
    /\ IF endpoint < Len(BINANCE_WS_ENDPOINTS)
       THEN /\ endpoint' = endpoint + 1
            /\ fpc' = "connect"
            /\ feed_wake' = feed_wake
       ELSE /\ endpoint' = 1
            /\ fpc' = "backoff"
            /\ feed_wake' = now + RETRY_SECONDS * TicksPerSecond
    /\ UNCHANGED <<static, ended, applied>>
    /\ UNCHANGED <<now, mpc, balance, latest_price, locals, db, sampled>>

\* line 128 returns: the whole list is retried
FeedRetry ==
    /\ FeedRuns /\ fpc = "backoff" /\ now >= feed_wake
    /\ fpc' = "connect" /\ feed_wake' = 0
    /\ UNCHANGED <<static, ended, applied>>
    /\ UNCHANGED <<now, mpc, balance, latest_price, locals, endpoint, db,
                   sampled>>

\* ------------------------------------------------------------- market_loop
\* Back at line 135.  The finished window's locals are dead there (each is
\* assigned again before it is read), so they are dropped; window_end_epoch
\* is kept, to tell where the finished window ended.
LoopTop ==
    /\ mpc' = "loop"
    /\ btc_open' = None /\ btc_at_signal' = None /\ btc_close' = None
    /\ direction' = Unset /\ outcome' = Unset /\ pnl' = None
    /\ sampled' = NoSamples

\* mutant: the startup wait left without a price
WaitPriceNoGuard ==
    /\ mpc = "wait_price"
    /\ mpc' = "loop"
    /\ UNCHANGED <<static, ended, applied>>
    /\ UNCHANGED <<now, balance, latest_price, locals, feed, db, sampled>>

\* lines 132-133: leave the startup wait once a price has been seen
WaitPrice ==
    /\ mpc = "wait_price"
    /\ latest_price # None
    /\ mpc' = "loop"
    /\ UNCHANGED <<static, ended, applied>>
    /\ UNCHANGED <<now, balance, latest_price, locals, feed, db, sampled>>

\* line 137
NextWindow ==
    /\ mpc = "loop"
    /\ ws_epoch' = next_window_start(now)
    /\ mpc' = "calc_wait"
    /\ UNCHANGED <<static, ended, applied>>
    /\ UNCHANGED <<now, balance, latest_price, window_end_epoch, btc_open,
                   btc_at_signal, btc_close, direction, outcome, pnl, feed, db,
                   sampled>>

\* lines 138-141
WaitOpen ==
    /\ mpc = "calc_wait"
    /\ LET wait == ws_epoch - now
       IN  mpc' = IF wait > 0 THEN "sleep_open" ELSE "open"
    /\ UNCHANGED <<static, ended, applied>>
    /\ UNCHANGED <<now, balance, latest_price, locals, feed, db, sampled>>

\* lines 144-152, entered directly or when the sleep of line 141 returns
WindowOpen ==
    /\ \/ mpc = "open"
       \/ mpc = "sleep_open" /\ now >= ws_epoch
    /\ btc_open' = latest_price
    /\ window_end_epoch' = ws_epoch + W
    /\ sampled' = [sampled EXCEPT !.open = now]
    /\ LET wait_signal == SignalTime(window_end_epoch') - now
       IN  mpc' = IF wait_signal > 0 THEN "sleep_signal" ELSE "signal"
    /\ UNCHANGED <<static, ended, applied>>
    /\ UNCHANGED <<now, balance, latest_price, ws_epoch, btc_at_signal,
                   btc_close, direction, outcome, pnl, feed, db>>

SkipRecord(open, signal, bal) ==
    [timestamp |-> fmt_ts(now),
     window_start |-> fmt_ts(ws_epoch),
     window_end |-> fmt_ts(window_end_epoch),
     btc_open |-> open, btc_at_signal |-> signal, btc_close |-> signal,
     direction_bet |-> "NONE", entry_price |-> 0,
     outcome |-> "SKIP", pnl |-> 0, balance_after |-> bal]

\* lines 154-181, entered directly or when the sleep of line 152 returns
Signal ==
    /\ \/ mpc = "signal"
       \/ mpc = "sleep_signal" /\ now >= SignalTime(window_end_epoch)
    /\ btc_at_signal' = latest_price
    /\ sampled' = [sampled EXCEPT !.signal = now]
    /\ LET move == btc_at_signal' - btc_open
       IN  IF IsSkip(move)
           THEN /\ trades' = record_trade(trades,
                                 SkipRecord(btc_open, btc_at_signal', balance))
                /\ mpc' = "skip_wait"
                /\ direction' = direction
           ELSE /\ direction' = BetDirection(move)
                /\ mpc' = "resolve_wait"
                /\ trades' = trades
    /\ UNCHANGED <<static, ended, applied>>
    /\ UNCHANGED <<now, balance, latest_price, ws_epoch, window_end_epoch,
                   btc_open, btc_close, outcome, pnl, feed, db_state>>

\* mutant: continue at once, without the wait for the window's close
SkipWaitNoWait ==
    /\ mpc = "skip_wait"
    /\ LoopTop
    /\ UNCHANGED <<static, ended, applied>>
    /\ UNCHANGED <<now, balance, latest_price, ws_epoch, window_end_epoch,
                   feed, db>>

\* lines 174-177
SkipWait ==
    /\ mpc = "skip_wait"
    /\ LET remaining == window_end_epoch - now
       IN  IF remaining > 0
           THEN mpc' = "sleep_skip" /\ UNCHANGED <<locals, sampled>>
           ELSE LoopTop /\ UNCHANGED <<ws_epoch, window_end_epoch>>
    /\ UNCHANGED <<static, ended, applied>>
    /\ UNCHANGED <<now, balance, latest_price, feed, db>>

\* line 176 returns; continue
SkipDone ==
    /\ mpc = "sleep_skip" /\ now >= window_end_epoch
    /\ LoopTop
    /\ UNCHANGED <<static, ended, applied>>
    /\ UNCHANGED <<now, balance, latest_price, ws_epoch, window_end_epoch,
                   feed, db>>

\* lines 184-186
ResolveWait ==
    /\ mpc = "resolve_wait"
    /\ LET remaining == window_end_epoch - now
       IN  mpc' = IF remaining > 0 THEN "sleep_close" ELSE "close"
    /\ UNCHANGED <<static, ended, applied>>
    /\ UNCHANGED <<now, balance, latest_price, locals, feed, db, sampled>>

\* mutant: the settlement waits for a price newer than the signal's
SettleNeedsFreshPrice ==
    /\ \/ mpc = "close"
       \/ mpc = "sleep_close" /\ now >= window_end_epoch
    /\ latest_price # btc_at_signal
    /\ btc_close' = latest_price
    /\ sampled' = [sampled EXCEPT !.close = now]
    /\ outcome' = Outcome(direction, btc_open, btc_close')
    /\ pnl' = Pnl(outcome')
    /\ balance' = NewBalance(balance, pnl')
    /\ db_state' = set_balance(db_state, balance')
    /\ mpc' = "record"
    /\ applied' = applied \cup {ws_epoch}
    /\ UNCHANGED <<static, ended>>
    /\ UNCHANGED <<now, latest_price, ws_epoch, window_end_epoch, btc_open,
                   btc_at_signal, direction, feed, trades>>

\* lines 188-206, entered directly or when the sleep of line 186 returns:
\* the close sample, the outcome, the payoff, the balance and its commit
Settle ==
    /\ \/ mpc = "close"
       \/ mpc = "sleep_close" /\ now >= window_end_epoch
    /\ btc_close' = latest_price
    /\ sampled' = [sampled EXCEPT !.close = now]
    /\ outcome' = Outcome(direction, btc_open, btc_close')
    /\ pnl' = Pnl(outcome')
    /\ balance' = NewBalance(balance, pnl')
    /\ db_state' = set_balance(db_state, balance')
    /\ mpc' = "record"
    /\ applied' = applied \cup {ws_epoch}
    /\ UNCHANGED <<static, ended>>
    /\ UNCHANGED <<now, latest_price, ws_epoch, window_end_epoch, btc_open,
                   btc_at_signal, direction, feed, trades>>

BetRecord ==
    [timestamp |-> fmt_ts(now),
     window_start |-> fmt_ts(ws_epoch),
     window_end |-> fmt_ts(window_end_epoch),
     btc_open |-> btc_open, btc_at_signal |-> btc_at_signal,
     btc_close |-> btc_close,
     direction_bet |-> direction, entry_price |-> ENTRY_PRICE,
     outcome |-> outcome, pnl |-> pnl, balance_after |-> balance]

\* lines 211-223: the record's commit
Record ==
    /\ mpc = "record"
    /\ trades' = record_trade(trades, BetRecord)
    /\ LoopTop
    /\ UNCHANGED <<static, ended, applied>>
    /\ UNCHANGED <<now, balance, latest_price, ws_epoch, window_end_epoch,
                   feed, db_state>>

\* mutant: a failed record_trade is caught and the settlement is run again
StorageFailureRetry ==
    /\ mpc = "record"
    /\ mpc' = "close"
    /\ ended' = "storage_error"
    /\ UNCHANGED <<static, applied>>
    /\ UNCHANGED <<now, balance, latest_price, locals, feed, db, sampled>>

\* sqlite raises in a write (set_balance of line 206, record_trade of lines
\* 160 and 211): nothing is committed, the exception leaves market_loop and
\* run, and the process ends
StorageFailure ==
    /\ \/ mpc = "close"
       \/ mpc = "sleep_close" /\ now >= window_end_epoch
       \/ mpc = "record"
       \/ /\ \/ mpc = "signal"
             \/ mpc = "sleep_signal" /\ now >= SignalTime(window_end_epoch)
          /\ IsSkip(latest_price - btc_open)
    /\ ProcessGone
    /\ ended' = "storage_error"
    /\ UNCHANGED <<static, applied>>
    /\ UNCHANGED <<now, db>>

Next ==
    \/ Tick
    \/ Start
    \/ Crash
    \/ Cancel
    \/ FeedConnect
    \/ FeedMessage
    \/ FeedError
    \/ FeedRetry
    \/ WaitPrice
    \/ NextWindow
    \/ WaitOpen
    \/ WindowOpen
    \/ Signal
    \/ SkipWait
    \/ SkipDone
    \/ ResolveWait
    \/ Settle
    \/ Record
    \/ StorageFailure

Spec == Init /\ [][Next]_vars

\* the process ends by cancellation only: no kill, no storage failure
NextCancel ==
    \/ Tick
    \/ Start
    \/ Cancel
    \/ FeedConnect
    \/ FeedMessage
    \/ FeedError
    \/ FeedRetry
    \/ WaitPrice
    \/ NextWindow
    \/ WaitOpen
    \/ WindowOpen
    \/ Signal
    \/ SkipWait
    \/ SkipDone
    \/ ResolveWait
    \/ Settle
    \/ Record

SpecCancel == Init /\ [][NextCancel]_vars

\* a step of market_loop
SchedulerStep ==
    \/ WaitPrice
    \/ NextWindow
    \/ WaitOpen
    \/ WindowOpen
    \/ Signal
    \/ SkipWait
    \/ SkipDone
    \/ ResolveWait
    \/ Settle
    \/ Record

\* the process is not stopped and its storage writes succeed
NextLive ==
    \/ Tick
    \/ Start
    \/ FeedConnect
    \/ FeedMessage
    \/ FeedError
    \/ FeedRetry
    \/ SchedulerStep

\* time advances, and the event loop runs market_loop whenever it is ready
\* (a sleep whose deadline has passed returns); nothing is assumed of the
\* price feed, which may never connect or deliver again
Fairness == WF_vars(Tick) /\ WF_vars(SchedulerStep)

SpecLive == Init /\ [][NextLive]_vars /\ Fairness

\* the price source of the end-to-end scenarios: 50000, 50010, 50050
ScenarioPrices == {50000, 50010, 50050}

InitScenario == InitWith(DefaultConfig, ScenarioPrices)

SpecScenario == InitScenario /\ [][Next]_vars

\* the values the module constants of bot.py are edited to: the shipped ones,
\* a signal offset not below the window length, and MIN_MOVE_USD = 0
BadOffsets == {WINDOW_SECONDS, WINDOW_SECONDS + SIGNAL_OFFSET}

ZeroMoveConfig == [DefaultConfig EXCEPT !.MIN_MOVE_USD = 0]

Configs ==
    {DefaultConfig, ZeroMoveConfig}
        \cup {[DefaultConfig EXCEPT !.SIGNAL_OFFSET = o] : o \in BadOffsets}

InitConfigured == \E cfg \in Configs : InitWith(cfg, Prices)

SpecConfigured == InitConfigured /\ [][Next]_vars

\* ================================================================ claims
RECURSIVE SumPnl(_)
SumPnl(table) ==
    IF table = <<>> THEN 0
    ELSE table[Len(table)].pnl + SumPnl(SubSeq(table, 1, Len(table) - 1))

PersistedBalance == get_balance(db_state)

LastTrade == trades[Len(trades)]

\* the scheduler has a window open (its open price is sampled, its record
\* not yet complete)
InWindow ==
    mpc \in {"sleep_signal", "signal", "skip_wait", "sleep_skip",
             "resolve_wait", "sleep_close", "close", "record"}

\* the scheduler is between two windows
BetweenWindows == mpc \in {"wait_price", "loop", "calc_wait", "sleep_open", "open"}

\* C1: settlement is atomic in the store: in the state a process crash or a
\* storage failure leaves (the process is down), the persisted balance
\* carries exactly the pnl of the windows the trades table records.
C1_SettlementAtomic ==
    (mpc = "down" /\ db_state # {}) =>
        PersistedBalance = INITIAL_BALANCE + SumPnl(trades)

\* each row's balance_after is the balance before its window plus its pnl
BalanceChain ==
    \A i \in 1..Len(trades) :
        trades[i].balance_after =
            (IF i = 1 THEN INITIAL_BALANCE ELSE trades[i - 1].balance_after)
            + trades[i].pnl

\* C2: balance continuity: between two windows, restarts included, the
\* persisted balance minus INITIAL_BALANCE is the sum of pnl over the trades
\* table, and each row's balance_after is the balance before it plus its pnl.
C2_BalanceContinuity ==
    BetweenWindows =>
        /\ PersistedBalance - INITIAL_BALANCE = SumPnl(trades)
        /\ BalanceChain

\* C3: within a window the samples are taken in the order open, signal,
\* close, and none before its instant: open at or after window_start, signal
\* at or after window_start + WINDOW_SECONDS - SIGNAL_OFFSET, close at or
\* after window_end.
C3_SampleOrder ==
    /\ InWindow => sampled.open # None
    /\ mpc \in {"skip_wait", "sleep_skip", "resolve_wait", "sleep_close",
                "close", "record"} => sampled.signal # None
    /\ mpc = "record" => sampled.close # None
    /\ sampled.open # None => sampled.open >= ws_epoch
    /\ sampled.signal # None =>
        /\ sampled.open # None
        /\ sampled.open <= sampled.signal
        /\ sampled.signal >=
              ws_epoch + (WINDOW_SECONDS - SIGNAL_OFFSET) * TicksPerSecond
    /\ sampled.close # None =>
        /\ sampled.signal # None
        /\ sampled.signal <= sampled.close
        /\ sampled.close >= ws_epoch + WINDOW_SECONDS * TicksPerSecond

\* a settled window whose open sample was late and whose three samples were
\* taken at three different instants
C3_Witness ==
    /\ mpc = "record"
    /\ ws_epoch < sampled.open
    /\ sampled.open < sampled.signal
    /\ sampled.signal < sampled.close

\* the prices of a record are prices
RecordPricesDefined(r) ==
    r.btc_open # None /\ r.btc_at_signal # None /\ r.btc_close # None

C4_SamplesDefined ==
    /\ mpc \notin {"down", "wait_price"} => latest_price # None
    /\ sampled.open # None => btc_open # None
    /\ sampled.signal # None => btc_at_signal # None
    /\ sampled.close # None => btc_close # None
    /\ \A i \in 1..Len(trades) : RecordPricesDefined(trades[i])

\* C4: the scheduler never samples an undefined price: market_loop is past
\* its startup wait only when latest_price is set, every open, signal and
\* close price it has read (and every recorded one) is a price, and
\* latest_price, once set, stays set for as long as the process lives.
C4_NoUndefinedPrice ==
    /\ []C4_SamplesDefined
    /\ [][latest_price # None => (latest_price' # None \/ mpc' = "down")]_vars

\* a window settled in a process that started without a price
C4_Witness ==
    /\ mpc = "record"
    /\ btc_open # btc_at_signal
    /\ btc_close # btc_at_signal

\* C5: after a bet window is settled at its window_end, the next cycle takes
\* that instant as its window_start (windows are contiguous).
C5_ContiguousAfterBet ==
    (/\ mpc = "calc_wait"
     /\ window_end_epoch # None
     /\ now = window_end_epoch
     /\ trades # <<>>
     /\ LastTrade.outcome # "SKIP"
     /\ LastTrade.window_end = fmt_ts(window_end_epoch)) =>
        ws_epoch = window_end_epoch

\* the rows of the trades table
Rows == {trades[i] : i \in 1..Len(trades)}

C6_RecordsAligned ==
    \A r \in Rows :
        /\ r.window_start % WINDOW_SECONDS = 0
        /\ r.window_end = r.window_start + WINDOW_SECONDS

\* C6: window alignment: the window_start computed at time t (now) is a
\* multiple of WINDOW_SECONDS and, unless t is exactly on a boundary, the
\* least such multiple strictly greater than t; every window has
\* window_end = window_start + WINDOW_SECONDS.
C6_WindowAlignment ==
    /\ [][(mpc = "loop" /\ mpc' = "calc_wait") =>
            /\ ws_epoch' % (WINDOW_SECONDS * TicksPerSecond) = 0
            /\ now % (WINDOW_SECONDS * TicksPerSecond) # 0 =>
                  /\ ws_epoch' > now
                  /\ ws_epoch' - WINDOW_SECONDS * TicksPerSecond <= now]_vars
    /\ [](InWindow =>
            window_end_epoch = ws_epoch + WINDOW_SECONDS * TicksPerSecond)
    /\ []C6_RecordsAligned

\* a window_start computed off a boundary, after a first record
C6_Witness ==
    /\ mpc = "calc_wait"
    /\ now % W # 0
    /\ ws_epoch > now
    /\ trades # <<>>

\* successive records: strictly increasing window_start, no overlap
C7_RecordsOrdered ==
    \A i \in 2..Len(trades) :
        /\ trades[i].window_start > trades[i - 1].window_start
        /\ trades[i].window_start >= trades[i - 1].window_end

\* the window the scheduler has just finished has exactly one record
C7_OnePerFinishedWindow ==
    (mpc = "loop" /\ window_end_epoch # None) =>
        Cardinality({i \in 1..Len(trades) :
                        trades[i].window_start = fmt_ts(ws_epoch)}) = 1

\* C7: one record per window, never updated or deleted: the trades table
\* only grows by appending one row, successive rows have strictly increasing
\* window_start at or after the previous row's window_end, and a window the
\* scheduler has finished has exactly one row.
C7_OneRecordPerWindow ==
    /\ [][\/ trades' = trades
          \/ /\ Len(trades') = Len(trades) + 1
             /\ SubSeq(trades', 1, Len(trades)) = trades]_vars
    /\ []C7_RecordsOrdered
    /\ []C7_OnePerFinishedWindow

\* two rows of adjacent windows, the second a bet settled by a scheduler that
\* is back at the loop top
C7_Witness ==
    /\ mpc = "loop"
    /\ Len(trades) = 2
    /\ trades[2].window_start = trades[1].window_end
    /\ trades[2].outcome # "SKIP"

\* C8: decision rule, with move = signal - open: SKIP exactly when
\* |move| < MIN_MOVE_USD; otherwise UP when move > 0 and DOWN when move < 0;
\* a move of exactly MIN_MOVE_USD is a bet.
C8_DecisionRule ==
    /\ \A r \in Rows :
        LET move == r.btc_at_signal - r.btc_open
        IN  /\ (r.outcome = "SKIP") <=> (Abs(move) < MIN_MOVE_USD)
            /\ (r.direction_bet = "NONE") <=> (r.outcome = "SKIP")
            /\ (r.direction_bet = "UP") <=> (move >= MIN_MOVE_USD)
            /\ (r.direction_bet = "DOWN") <=> (move <= -MIN_MOVE_USD)
    /\ mpc \in {"skip_wait", "sleep_skip"} =>
        /\ Abs(btc_at_signal - btc_open) < MIN_MOVE_USD
        /\ LastTrade.outcome = "SKIP"
    /\ mpc \in {"resolve_wait", "sleep_close", "close", "record"} =>
        LET move == btc_at_signal - btc_open
        IN  /\ Abs(move) >= MIN_MOVE_USD
            /\ move > 0 => direction = "UP"
            /\ move < 0 => direction = "DOWN"

\* a SKIP on a move that is not zero, then a DOWN bet on a move of exactly
\* the threshold
C8_Witness ==
    /\ \E r \in Rows : r.outcome = "SKIP" /\ r.btc_at_signal # r.btc_open
    /\ \E r \in Rows :
        r.btc_open - r.btc_at_signal = MIN_MOVE_USD /\ r.direction_bet = "DOWN"

\* the outcome the claim gives a bet
C9_Expected(dir, open, close) ==
    IF close = open THEN "LOSS"
    ELSE IF (close > open /\ dir = "UP") \/ (close < open /\ dir = "DOWN")
         THEN "WIN"
         ELSE "LOSS"

\* C9: settlement outcome: LOSS when close = open whatever the direction;
\* otherwise WIN exactly when close > open with UP or close < open with
\* DOWN; the signal price plays no part.
C9_SettlementOutcome ==
    /\ \A r \in Rows :
        r.outcome # "SKIP" =>
            r.outcome = C9_Expected(r.direction_bet, r.btc_open, r.btc_close)
    /\ mpc = "record" => outcome = C9_Expected(direction, btc_open, btc_close)
    /\ \A r1, r2 \in Rows :
        (/\ r1.outcome # "SKIP" /\ r2.outcome # "SKIP"
         /\ r1.direction_bet = r2.direction_bet
         /\ r1.btc_open = r2.btc_open /\ r1.btc_close = r2.btc_close) =>
            r1.outcome = r2.outcome

\* a DOWN bet with a flat close, recorded as a LOSS
C9_Witness ==
    \E r \in Rows :
        /\ r.outcome = "LOSS" /\ r.direction_bet = "DOWN"
        /\ r.btc_close = r.btc_open /\ r.btc_at_signal < r.btc_open

\* p is x / d rounded to the nearest integer
Nearest(p, x, d) == 2 * Abs(p * d - x) <= d

C10_RecordsPayoff ==
    \A r \in Rows :
        /\ r.outcome = "WIN" =>
            \* (order_size / entry_price) * (1 - entry_price) + rebate, in
            \* 1/Scale, over the common denominator ENTRY_PRICE
            Nearest(r.pnl,
                    ORDER_SIZE_USD * (Scale - ENTRY_PRICE)
                        + MAKER_REBATE * ENTRY_PRICE,
                    ENTRY_PRICE)
        /\ r.outcome = "LOSS" => r.pnl = MAKER_REBATE - ORDER_SIZE_USD
        /\ r.outcome # "SKIP" => r.entry_price = ENTRY_PRICE

\* C10: payoff: a WIN's pnl is (order_size / entry_price) * (1 - entry_price)
\* + rebate rounded to 4 decimals, a LOSS's pnl is -order_size + rebate,
\* whatever the prices; the balance applied (in memory, persisted and
\* recorded) is the previous balance plus that pnl.
C10_Payoff ==
    /\ []C10_RecordsPayoff
    /\ [][(mpc # "record" /\ mpc' = "record") =>
            /\ balance' = balance + pnl'
            /\ get_balance(db_state') = get_balance(db_state) + pnl']_vars
    /\ [][(mpc = "record" /\ mpc' = "loop") =>
            /\ trades'[Len(trades')].pnl = pnl
            /\ trades'[Len(trades')].balance_after = balance]_vars

\* a WIN recorded after a SKIP, its balance_after persisted
C10_Witness ==
    /\ Len(trades) = 2
    /\ trades[1].outcome = "SKIP" /\ trades[2].outcome = "WIN"
    /\ trades[2].balance_after = trades[1].balance_after + trades[2].pnl
    /\ PersistedBalance = trades[2].balance_after

\* the window of scenario 1: open 50000, signal 50010, close 50050
C11_Scenario(r) ==
    r.btc_open = 50000 /\ r.btc_at_signal = 50010 /\ r.btc_close = 50050

\* C11 as stated: with order size 10, entry price 0.92, rebate 0.005 and
\* min_move 5, the window open 50000, signal 50010, close 50050 bets UP,
\* resolves as WIN and records a pnl of 0.8752.
C11_ScenarioAsStated ==
    \A r \in Rows :
        C11_Scenario(r) =>
            /\ r.direction_bet = "UP"
            /\ r.outcome = "WIN"
            /\ r.pnl = 8752

\* C11, amended: the same window bets UP, resolves as WIN and records a pnl
\* of 0.8746, which is (10 / 0.92) * 0.08 + 0.005 = 0.874565... to 4 decimals.
C11_ScenarioAmended ==
    /\ config.MIN_MOVE_USD = 5 /\ ORDER_SIZE_USD = 10 * Scale
    /\ 100 * ENTRY_PRICE = 92 * Scale /\ 1000 * MAKER_REBATE = 5 * Scale
    /\ \A r \in Rows :
        C11_Scenario(r) =>
            /\ r.direction_bet = "UP"
            /\ r.outcome = "WIN"
            /\ r.pnl = 8746
            /\ r.entry_price = ENTRY_PRICE

\* the scenario's window, recorded first, its pnl on the persisted balance
C11_Witness ==
    /\ trades # <<>>
    /\ C11_Scenario(trades[1])
    /\ PersistedBalance = INITIAL_BALANCE + trades[1].pnl

C12_SkipRows ==
    \A r \in Rows :
        r.outcome = "SKIP" =>
            /\ r.direction_bet = "NONE" /\ r.entry_price = 0 /\ r.pnl = 0
            /\ r.btc_close = r.btc_at_signal

\* after the SKIP decision, before the window's close
C12_SkipState ==
    mpc \in {"skip_wait", "sleep_skip"} =>
        /\ LastTrade.outcome = "SKIP"
        /\ LastTrade.window_start = fmt_ts(ws_epoch)
        /\ LastTrade.timestamp = fmt_ts(sampled.signal)
        /\ sampled.close = None
        /\ LastTrade.balance_after = balance
        /\ balance = PersistedBalance

\* C12: a SKIP window leaves the balance (in memory and persisted) unchanged
\* and appends exactly one record, at the signal instant and without a close
\* sample, with direction_bet NONE, entry_price 0, outcome SKIP, pnl 0, close
\* price = signal price and balance_after = the unchanged balance; the
\* scheduler then leaves the window only at or after window_end.
C12_SkipWindow ==
    /\ []C12_SkipRows
    /\ []C12_SkipState
    /\ [][(mpc # "skip_wait" /\ mpc' = "skip_wait") =>
            /\ balance' = balance
            /\ db_state' = db_state
            /\ Len(trades') = Len(trades) + 1
            /\ SubSeq(trades', 1, Len(trades)) = trades]_vars
    /\ [][(mpc \in {"skip_wait", "sleep_skip"} /\ mpc' = "loop") =>
            /\ now >= window_end_epoch
            /\ trades' = trades
            /\ balance' = balance
            /\ db_state' = db_state]_vars

\* scenario 3's move (2 dollars, under the threshold): the SKIP row is
\* written and the scheduler sleeps to the window's end
C12_Witness ==
    /\ mpc = "sleep_skip"
    /\ now < window_end_epoch
    /\ Abs(LastTrade.btc_at_signal - LastTrade.btc_open) = 2
    /\ LastTrade.outcome = "SKIP"

\* C13: ledger initialization is idempotent: init_db writes INITIAL_BALANCE
\* only when there is no balance row; run again on its own result, or at a
\* restart after settled windows, it changes no existing balance and removes
\* no trade row, and the restarted process resumes from the persisted
\* balance.
C13_InitIdempotent ==
    /\ [](/\ init_db(init_db(db_state)) = init_db(db_state)
          /\ db_state # {} => init_db(db_state) = db_state
          /\ get_balance(init_db({})) = INITIAL_BALANCE)
    /\ [][(mpc = "down" /\ mpc' # "down") =>
            /\ db_state # {} => db_state' = db_state
            /\ db_state = {} => get_balance(db_state') = INITIAL_BALANCE
            /\ trades' = trades
            /\ balance' = get_balance(db_state')]_vars

\* a process restarted after a settled bet: it resumes from the balance the
\* bet left
C13_Witness ==
    /\ mpc = "wait_price"
    /\ trades # <<>>
    /\ LastTrade.outcome # "SKIP"
    /\ balance = LastTrade.balance_after
    /\ balance # INITIAL_BALANCE

\* C14: a configuration with SIGNAL_OFFSET >= WINDOW_SECONDS is rejected at
\* startup: no window is opened and no trade record is written.
C14_BadOffsetRejected ==
    config.SIGNAL_OFFSET >= WINDOW_SECONDS =>
        /\ ~InWindow
        /\ sampled.open = None
        /\ trades = <<>>

\* C18: with min_move configured as 0, a window whose signal price equals its
\* open price (move = 0) is a SKIP: no direction is bet, the balance is
\* unchanged and the record has direction_bet NONE.
C18_ZeroMoveIsSkip ==
    config.MIN_MOVE_USD = 0 =>
        /\ mpc \in {"resolve_wait", "sleep_close", "close", "record"} =>
              btc_at_signal # btc_open
        /\ \A r \in Rows :
              r.btc_at_signal = r.btc_open =>
                  /\ r.outcome = "SKIP"
                  /\ r.direction_bet = "NONE"
                  /\ r.pnl = 0

\* the process is running before and after the step
StaysUp == mpc # "down" /\ mpc' # "down"

\* C15: price-feed failures are not fatal and fail over in list order: an
\* error on an endpoint that is not the last moves the feed to the next
\* endpoint without sleeping; an error on the last endpoint puts the feed to
\* sleep for RETRY_SECONDS, after which the list is retried from its first
\* endpoint; the feed sleeps in no other case, it exists as long as the
\* process does, and no feed step moves the scheduler.
C15_FeedFailover ==
    /\ [](mpc # "down" => fpc \in {"connect", "stream", "backoff"})
    /\ [](fpc = "backoff" =>
            /\ endpoint = 1
            /\ feed_wake <= now + RETRY_SECONDS * TicksPerSecond)
    /\ [][(StaysUp /\ fpc \in {"connect", "stream"}
              /\ (fpc' = "backoff" \/ endpoint' # endpoint
                    \/ (fpc = "stream" /\ fpc' = "connect"))) =>
            IF endpoint < Len(BINANCE_WS_ENDPOINTS)
            THEN endpoint' = endpoint + 1 /\ fpc' = "connect"
            ELSE /\ fpc' = "backoff"
                 /\ endpoint' = 1
                 /\ feed_wake' = now + RETRY_SECONDS * TicksPerSecond]_vars
    /\ [][(StaysUp /\ fpc = "backoff" /\ fpc' # "backoff") =>
            /\ now >= feed_wake
            /\ fpc' = "connect"
            /\ endpoint' = 1]_vars
    /\ [][(StaysUp /\ (fpc' # fpc \/ endpoint' # endpoint)) =>
            /\ mpc' = mpc
            /\ latest_price' = latest_price]_vars

\* every endpoint has failed after a price was delivered: the feed sleeps,
\* the scheduler is in a window with the last price
C15_Witness ==
    /\ fpc = "backoff"
    /\ feed_wake > now
    /\ latest_price # None
    /\ mpc = "sleep_close"

\* the scheduler is suspended in a window it has not recorded yet
Pending == mpc \in {"sleep_signal", "sleep_close"}

C17_StorageFailureFatal ==
    /\ [][(ended # "storage_error" /\ ended' = "storage_error") =>
            /\ mpc' = "down"
            /\ db_state' = db_state
            /\ trades' = trades]_vars
    /\ [][(ended = "storage_error" /\ ended' = "storage_error") =>
            /\ mpc' = "down"
            /\ db_state' = db_state
            /\ trades' = trades]_vars
    /\ [][(mpc # "record" /\ mpc' = "record") =>
            /\ ws_epoch \notin applied
            /\ applied' = applied \cup {ws_epoch}]_vars

\* record_trade failed after the balance of a bet was committed
C17_Witness ==
    /\ mpc = "down"
    /\ ended = "storage_error"
    /\ applied # {}
    /\ trades = <<>>
    /\ PersistedBalance # INITIAL_BALANCE

\* a step of the price feed
FeedStep ==
    /\ StaysUp
    /\ mpc' = mpc
    /\ fpc' # fpc \/ endpoint' # endpoint \/ latest_price' # latest_price

\* C20: at every suspension point of market_loop the in-memory balance is
\* the persisted one; the in-memory balance of a running process changes
\* only in the settlement of a WIN or LOSS window; no step of the price feed
\* changes the balance, the balance row or the trades table.
C20_BalanceAgreement ==
    /\ [](mpc \in Suspended => balance = PersistedBalance)
    /\ [][(StaysUp /\ balance' # balance) =>
            /\ mpc' = "record"
            /\ outcome' \in {"WIN", "LOSS"}
            /\ balance' = NewBalance(balance, pnl')]_vars
    /\ [][FeedStep =>
            /\ balance' = balance
            /\ db_state' = db_state
            /\ trades' = trades]_vars

\* suspended before the next window, after a settled bet
C20_Witness ==
    /\ mpc = "sleep_open"
    /\ trades # <<>>
    /\ LastTrade.outcome # "SKIP"
    /\ balance # INITIAL_BALANCE
    /\ balance = PersistedBalance

\* the scheduler has opened a window and not yet appended its record
Unrecorded ==
    mpc \in {"sleep_signal", "signal", "resolve_wait", "sleep_close", "close",
             "record"}

\* the record of the scheduler's current window is in the trades table
Recorded == \E r \in Rows : r.window_start = fmt_ts(ws_epoch)

\* the scheduler is waiting for the start of its next window
Awaiting == mpc \in {"calc_wait", "sleep_open", "open"}

\* C19: every opened window is eventually recorded: under SpecLive (time
\* advances, market_loop is run when ready, writes succeed, nothing assumed
\* of the feed after its first price) a window whose open price has been
\* sampled, and whose end the clock reaches, eventually has its record in the
\* trades table; the scheduler then computes the start of a later window,
\* and a scheduler awaiting a window start the clock reaches opens that
\* window.  The window the scheduler works on does not change on the way.
C19_EveryWindowRecorded ==
    /\ [][(StaysUp /\ (InWindow \/ Awaiting)) => ws_epoch' = ws_epoch]_vars
    /\ [][(StaysUp /\ Unrecorded /\ ~Unrecorded') => Recorded']_vars
    /\ (Unrecorded /\ window_end_epoch <= MaxTime)
          ~> (Recorded /\ mpc \in {"skip_wait", "sleep_skip", "loop"})
    /\ (InWindow /\ window_end_epoch <= MaxTime)
          ~> (Awaiting /\ ws_epoch >= window_end_epoch)
    /\ (Awaiting /\ ws_epoch <= MaxTime)
          ~> (InWindow /\ sampled.open # None)

\* a bet window settled and recorded with the price of its signal instant:
\* the feed delivered nothing after the signal
C19_Witness ==
    /\ trades # <<>>
    /\ LastTrade.outcome \in {"WIN", "LOSS"}
    /\ LastTrade.btc_close = LastTrade.btc_at_signal
    /\ BetweenWindows
    /\ ws_epoch > LastTrade.window_start * TicksPerSecond
    /\ ended = "no"

====
